---- MODULE Spec2Model ----
(***************************************************************************)
(* Model of src/src/handler.py: the two-phase batched reader               *)
(* (build_snapshot), the account-level risk derivation and the handler     *)
(* entry point of the Aave v3 (Base) health-factor snapshot.               *)
(*                                                                         *)
(* Numbers.  The program computes with Python ints and with Decimal at 120 *)
(* significant digits.  The model computes with exact scaled rationals     *)
(*      [n |-> numerator, d |-> denominator, e |-> decimal exponent]       *)
(* standing for (n / d) * 10^e, kept in a canonical form (Norm), so that   *)
(* 10^18, 10^27 and 200 * 10^8 are written as they are in the program and  *)
(* no intermediate value leaves the range of the checker's integers.       *)
(***************************************************************************)
EXTENDS Integers, Sequences, FiniteSets, TLC

(***************************************************************************)
(* Bounds of the model.                                                    *)
(***************************************************************************)
\* longest reserve list returned by getReservesList
MaxReserves == 2
\* account totals range over 0 .. MaxUsd hundreds of base-currency units
MaxUsd == 3
\* number of 16-bit limbs of the ints given to as_str_uint
MaxLimbs == 4

(***************************************************************************)
(* Exact decimal arithmetic (D, Decimal).                                  *)
(***************************************************************************)
Abs(x) == IF x < 0 THEN -x ELSE x

RECURSIVE Gcd(_, _)
Gcd(a, b) == IF b = 0 THEN a ELSE Gcd(b, a % b)

RECURSIVE Pow10(_)
Pow10(k) == IF k <= 0 THEN 1 ELSE 10 * Pow10(k - 1)

RECURSIVE Pow2(_)
Pow2(k) == IF k <= 0 THEN 1 ELSE 2 * Pow2(k - 1)

\* move the factors 2 and 5 of the denominator into the exponent
RECURSIVE StripDen(_, _, _)
StripDen(n, d, e) ==
    IF d % 2 = 0 THEN StripDen(n * 5, d \div 2, e - 1)
    ELSE IF d % 5 = 0 THEN StripDen(n * 2, d \div 5, e - 1)
    ELSE [n |-> n, d |-> d, e |-> e]

\* move the factors 10 of the numerator into the exponent
RECURSIVE StripNum(_, _, _)
StripNum(n, d, e) ==
    IF n # 0 /\ n % 10 = 0 THEN StripNum(n \div 10, d, e + 1)
    ELSE [n |-> n, d |-> d, e |-> e]

\* canonical form of (n / d) * 10^e, d # 0
Norm(n, d, e) ==
    IF n = 0 THEN [n |-> 0, d |-> 1, e |-> 0]
    ELSE IF d = 1 /\ n % 10 # 0 THEN [n |-> n, d |-> 1, e |-> e]
    ELSE LET s  == IF d < 0 THEN -1 ELSE 1
             g  == Gcd(Abs(n), Abs(d))
             r1 == StripDen((s * n) \div g, Abs(d) \div g, e)
         IN  StripNum(r1.n, r1.d, r1.e)

\* D(x) of a Python int x
D(x) == Norm(x, 1, 0)
\* the value m * 10^k (a Python int or Decimal literal)
Sci(m, k) == Norm(m, 1, k)

Zero == D(0)
One == D(1)

NMin(a, b) == IF a < b THEN a ELSE b

Mul(a, b) == Norm(a.n * b.n, a.d * b.d, a.e + b.e)
Neg(a) == [a EXCEPT !.n = -a.n]
Add(a, b) ==
    LET m == NMin(a.e, b.e)
    IN  IF a.n = 0 THEN b
        ELSE IF b.n = 0 THEN a
        ELSE Norm(a.n * Pow10(a.e - m) * b.d + b.n * Pow10(b.e - m) * a.d, a.d * b.d, m)
Sub(a, b) == Add(a, Neg(b))
\* a / b for b # 0 (Decimal raises DivisionByZero otherwise)
Div(a, b) == Norm(a.n * b.d, a.d * b.n, a.e - b.e)
IsZero(a) == a.n = 0
Gt0(a) == a.n > 0
Lt0(a) == a.n < 0
Lt(a, b) == Lt0(Sub(a, b))
Gt(a, b) == Gt0(Sub(a, b))
Le(a, b) == ~Gt(a, b)
Ge(a, b) == ~Lt(a, b)

(***************************************************************************)
(* Account-level risk derivation (build_snapshot, lines 435-477).          *)
(* u is the tuple returned by getUserAccountData as Python ints, here      *)
(* already Decimals: <<totalCollateralBase, totalDebtBase,                 *)
(* availableBorrowsBase, currentLiquidationThreshold, ltv, healthFactor>>. *)
(***************************************************************************)
HealthFactor(health_factor_ray) ==
    IF Gt0(health_factor_ray) THEN Div(health_factor_ray, Sci(1, 18)) ELSE Zero

Bps(x) == Div(x, D(10000))

\* variant: the buffer is not clamped at zero
LiqBuffer_unclamped(total_collateral_usd_api, liq_thr_user, total_debt_usd_api) ==
    Sub(Mul(total_collateral_usd_api, liq_thr_user), total_debt_usd_api)

LiqBuffer(total_collateral_usd_api, liq_thr_user, total_debt_usd_api) ==
    LET liq_buffer_usd == Sub(Mul(total_collateral_usd_api, liq_thr_user), total_debt_usd_api)
    IN  IF Lt0(liq_buffer_usd) THEN Zero ELSE liq_buffer_usd

\* variant: the account-level total is always reported
PreferredTotal_api(usd_sum, usd_api) == usd_api

PreferredTotal(usd_sum, usd_api) == IF Gt0(usd_sum) THEN usd_sum ELSE usd_api

\* variant: a negative equity is clamped to zero
NetEquity_clamped(total_collateral_usd, total_debt_usd) ==
    IF Lt0(Sub(total_collateral_usd, total_debt_usd)) THEN Zero
    ELSE Sub(total_collateral_usd, total_debt_usd)

NetEquity(total_collateral_usd, total_debt_usd) == Sub(total_collateral_usd, total_debt_usd)

CurrentLeverage(total_collateral_usd, net_equity_usd) ==
    IF Gt0(net_equity_usd) THEN Div(total_collateral_usd, net_equity_usd) ELSE Zero

\* the LTV-only branch divides by (1 - ltv): Decimal raises when ltv = 1
MaxLeverageRaises(total_collateral_usd, total_debt_usd, liq_thr_user, ltv_user) ==
    /\ ~(Gt0(total_collateral_usd) /\ Gt0(liq_thr_user) /\ Gt0(total_debt_usd))
    /\ Gt0(ltv_user)
    /\ IsZero(Sub(One, ltv_user))

MaxLeverage(total_collateral_usd, total_debt_usd, liq_thr_user, ltv_user) ==
    IF Gt0(total_collateral_usd) /\ Gt0(liq_thr_user) /\ Gt0(total_debt_usd)
    THEN LET debt_ratio == Div(total_debt_usd, total_collateral_usd)
             denom == Sub(liq_thr_user, debt_ratio)
         IN  IF Gt0(denom) THEN Div(liq_thr_user, denom) ELSE Zero
    ELSE IF Gt0(ltv_user) THEN Div(ltv_user, Sub(One, ltv_user))
    ELSE Zero

\* variant: the boundary 1.05 is classified "high"
RiskClass_inclusive(hf) ==
    IF Le(hf, Sci(105, -2)) THEN "high"
    ELSE IF Lt(hf, Sci(125, -2)) THEN "moderate"
    ELSE "low"

RiskClass(hf) ==
    IF Lt(hf, Sci(105, -2)) THEN "high"
    ELSE IF Lt(hf, Sci(125, -2)) THEN "moderate"
    ELSE "low"

IsSafe(hf) == Gt(hf, Sci(105, -2))

AccountRisk(u, base_unit_d, total_collateral_usd_sum, total_debt_usd_sum) ==
    LET hf == HealthFactor(u[6])
        ltv_user == Bps(u[5])
        liq_thr_user == Bps(u[4])
        total_collateral_usd_api == Div(u[1], base_unit_d)
        total_debt_usd_api == Div(u[2], base_unit_d)
        available_borrows_usd == Div(u[3], base_unit_d)
        total_collateral_usd == PreferredTotal(total_collateral_usd_sum, total_collateral_usd_api)
        total_debt_usd == PreferredTotal(total_debt_usd_sum, total_debt_usd_api)
        net_equity_usd == NetEquity(total_collateral_usd, total_debt_usd)
    IN  IF MaxLeverageRaises(total_collateral_usd, total_debt_usd, liq_thr_user, ltv_user)
        THEN [ok |-> FALSE, error |-> "DivisionByZero"]
        ELSE [ok |-> TRUE,
              health_factor |-> hf,
              ltv |-> ltv_user,
              liquidation_threshold |-> liq_thr_user,
              liquidation_buffer_usd |->
                  LiqBuffer(total_collateral_usd_api, liq_thr_user, total_debt_usd_api),
              available_borrows_usd |-> available_borrows_usd,
              risk_class |-> RiskClass(hf),
              is_safe |-> IsSafe(hf),
              total_collateral_usd |-> total_collateral_usd,
              total_debt_usd |-> total_debt_usd,
              net_equity_usd |-> net_equity_usd,
              current_leverage_ratio |-> CurrentLeverage(total_collateral_usd, net_equity_usd),
              max_leverage_at_current_hf |->
                  MaxLeverage(total_collateral_usd, total_debt_usd, liq_thr_user, ltv_user)]

(***************************************************************************)
(* Addresses, ABI payloads and sub-call results.                           *)
(* An address is a tagged record; only identity and "is it the zero        *)
(* address" matter to the program.  The return bytes of a sub-call are     *)
(* abstracted to what the decoders can tell apart: empty bytes, bytes that *)
(* decode against exactly one ABI shape, and garbage that decodes against  *)
(* none (Web3.to_int still reads garbage as its big-endian integer).       *)
(***************************************************************************)
Address(tag, id) == [tag |-> tag, id |-> id]
ZERO_ADDRESS == Address("zero", 0)
POOL_ADDRESS == Address("pool", 0)
MULTICALL3_ADDRESS == Address("multicall3", 0)
ORACLE_ADDRESS == Address("oracle", 0)
CONFIGURATOR_ADDRESS == Address("configurator", 0)
ReserveAddress(i) == Address("reserve", i)

Ok(data) == [success |-> TRUE, data |-> data]
Failed(data) == [success |-> FALSE, data |-> data]

Empty == [kind |-> "empty"]
\* nonempty bytes that decode against no expected type; int is Web3.to_int of them
Garbage == [kind |-> "garbage", int |-> Sci(7, 18)]
Uint256(v) == [kind |-> "uint256", v |-> v, int |-> v]
Uint8(v) == [kind |-> "uint8", v |-> v, int |-> D(v)]
AddressWord(a) == [kind |-> "address", v |-> a]
String(s) == [kind |-> "string", v |-> s]
Caps(b, s) == [kind |-> "caps", borrowCap |-> b, supplyCap |-> s]
Round(updatedAt) == [kind |-> "round", updatedAt |-> updatedAt]
ReserveData(conf, var_rate, st_rate, aToken, sDebt, vDebt) ==
    [kind |-> "reserveData", configuration |-> conf,
     currentVariableBorrowRate |-> var_rate, currentStableBorrowRate |-> st_rate,
     aTokenAddress |-> aToken, stableDebtTokenAddress |-> sDebt,
     variableDebtTokenAddress |-> vDebt]

\* w3.codec.decode(types, data) raises unless the bytes have the shape of types
Decodes(types, data) == data.kind = types

(***************************************************************************)
(* Bitfield decoder.  A 256-bit configuration word is a sequence of 16     *)
(* limbs of 16 bits, least significant first.                              *)
(***************************************************************************)
Bit(x, i) ==
    IF i >= 256 THEN 0
    ELSE (x[(i \div 16) + 1] \div Pow2(i % 16)) % 2

RECURSIVE BitsFrom(_, _, _)
\* the value of the length bits of x that start at bit start
BitsFrom(x, start, length) ==
    IF length = 0 THEN 0
    ELSE Bit(x, start) + 2 * BitsFrom(x, start + 1, length - 1)

conf_bits(x, start, length) == BitsFrom(x, start, length)

\* variant: the decimals field is read 16 bits wide
decode_config_wideDecimals(conf_uint) ==
    LET ltv_bps == conf_bits(conf_uint, 0, 16)
        liq_thr_bps == conf_bits(conf_uint, 16, 16)
        liq_bonus_bps == conf_bits(conf_uint, 32, 16)
        decimals_bits == conf_bits(conf_uint, 48, 16)
        emode_cat == conf_bits(conf_uint, 184, 8)
    IN  [ltv_bps |-> ltv_bps,
         liq_thr_bps |-> liq_thr_bps,
         liq_bonus_bps |-> liq_bonus_bps,
         decimals_bits |-> decimals_bits,
         emode_category |-> IF emode_cat > 0 THEN emode_cat ELSE -1,
         usage_as_collateral_enabled |-> ltv_bps > 0]

decode_config(conf_uint) ==
    LET ltv_bps == conf_bits(conf_uint, 0, 16)
        liq_thr_bps == conf_bits(conf_uint, 16, 16)
        liq_bonus_bps == conf_bits(conf_uint, 32, 16)
        decimals_bits == conf_bits(conf_uint, 48, 8)
        emode_cat == conf_bits(conf_uint, 184, 8)
    IN  [ltv_bps |-> ltv_bps,
         liq_thr_bps |-> liq_thr_bps,
         liq_bonus_bps |-> liq_bonus_bps,
         decimals_bits |-> decimals_bits,
         emode_category |-> IF emode_cat > 0 THEN emode_cat ELSE -1,
         usage_as_collateral_enabled |-> ltv_bps > 0]

to_units(raw, decimals) ==
    IF decimals <= 0 THEN raw ELSE Div(raw, Sci(1, decimals))

(***************************************************************************)
(* What the chain may answer.  Every sub-call result is an input of the    *)
(* run; the sets below bound them to one well-formed answer per slot and   *)
(* the faults of each slot (call failed, call succeeded with undecodable   *)
(* bytes, call failed with decodable bytes).                               *)
(***************************************************************************)
\* a configuration word from its fields; bit 56 (active flag) is an unlisted bit
ConfWord(ltv, liq_thr, liq_bonus, decimals_bits, emode_cat) ==
    [k \in 1..16 |->
        CASE k = 1 -> ltv
          [] k = 2 -> liq_thr
          [] k = 3 -> liq_bonus
          [] k = 4 -> decimals_bits + 256
          [] k = 12 -> 256 * emode_cat
          [] OTHER -> 0]

\* reserve data with every token deployed and the decimals in the configuration
ReserveDataFull(i) ==
    ReserveData(ConfWord(7500, 8000, 10500, 16, 0), Sci(3, 25), Zero,
                Address("aToken", i), Address("sDebt", i), Address("vDebt", i))
\* reserve data with no stable-debt token and no decimals in the configuration
ReserveDataBare(i) ==
    ReserveData(ConfWord(0, 0, 0, 0, 1), Sci(5, 25), Zero,
                Address("aToken", i), ZERO_ADDRESS, Address("vDebt", i))

\* reserve data with no token deployed at all
ReserveDataNone(i) ==
    ReserveData(ConfWord(0, 0, 0, 0, 1), Sci(5, 25), Zero,
                ZERO_ADDRESS, ZERO_ADDRESS, ZERO_ADDRESS)

Phase1Base(i) ==
    << Ok(ReserveDataFull(i)), Ok(Uint256(Sci(2, 8))), Ok(Caps(Sci(1, 6), Sci(2, 6))),
       Ok(AddressWord(Address("feed", i))), Ok(String("USDC")), Ok(Uint8(17)) >>

Phase1Bare(i) == [Phase1Base(i) EXCEPT ![1] = Ok(ReserveDataBare(i))]

\* what the six phase-1 calls of reserve i may answer
Phase1Answers(i) ==
    { \* every call answered
      Phase1Base(i),
      Phase1Bare(i),
      \* auxiliary calls failed, or answered bytes that do not decode
      [Phase1Base(i) EXCEPT ![2] = Failed(Empty), ![5] = Ok(Garbage)],
      [Phase1Bare(i) EXCEPT ![3] = Failed(Garbage), ![6] = Ok(Garbage)],
      [Phase1Bare(i) EXCEPT ![4] = Failed(Empty), ![5] = Failed(String("REVERT")),
                            ![6] = Failed(Uint8(15))],
      [k \in 1..6 |-> IF k = 1 THEN Ok(ReserveDataNone(i)) ELSE Failed(Empty)],
      \* the reserve-data call failed
      [Phase1Base(i) EXCEPT ![1] = Failed(Empty)],
      [Phase1Base(i) EXCEPT ![1] = Failed(ReserveDataFull(i))],
      [k \in 1..6 |-> Failed(Empty)] }
    \cup
    \* a call flagged successful whose bytes do not decode
    {[Phase1Base(i) EXCEPT ![k] = f] : k \in 1..4, f \in {Ok(Garbage), Ok(Empty)}}

\* the six phase-1 results of reserve i
Phase1ResponsesOf == [i \in 1..MaxReserves |-> Phase1Answers(i)]
Phase1Responses(i) == Phase1ResponsesOf[i]

Phase2Base ==
    << Ok(Uint256(Sci(3, 18))), Ok(Uint256(Sci(1, 21))),
       Ok(Uint256(Zero)), Ok(Uint256(Zero)),
       Ok(Uint256(Sci(1, 18))), Ok(Uint256(Sci(5, 20))),
       Ok(Round(1700000000)) >>

\* the seven phase-2 results of one reserve
Phase2Responses ==
    { Phase2Base,
      [k \in 1..7 |-> Failed(Empty)],
      [k \in 1..7 |-> Ok(Empty)],
      [Phase2Base EXCEPT ![1] = Failed(Uint256(Sci(9, 18))), ![5] = Ok(Garbage),
                         ![7] = Ok(Garbage)],
      [Phase2Base EXCEPT ![1] = Ok(Empty), ![5] = Ok(Garbage),
                         ![7] = Failed(Round(1700000000))] }

(***************************************************************************)
(* State of one invocation of handler(event).                              *)
(***************************************************************************)
VARIABLES
    pc,                 \* position of the run
    event_address,      \* event.get("address")
    env_address,        \* os.environ.get("MY_ADDRESS")
    user_address,       \* the resolved wallet address
    net,                \* network interactions so far, in order
    base_unit_d,
    reserves,
    batch1_calls,
    len_b1,             \* len(results_b1)
    pos,                \* index in reserves of the loop in progress
    call_idx,
    asset_data,
    symbols,
    decimals,
    batch2_calls,
    len_b2,             \* len(results_b2)
    call_idx_b2,
    read_b1,            \* asset -> first phase-1 slot read for it, and the success
                        \* flag of its reserve-data result
    read_b2,            \* asset -> first phase-2 slot its results were read from
    collateral,
    debt,
    oracle_assets,
    config_caps,
    total_collateral_usd_sum,
    total_debt_usd_sum,
    u,                  \* the answer of getUserAccountData
    snapshot,           \* the returned snapshot
    error,              \* the exception that ended the run
    arg,                \* argument of the pure function under study
    ret                 \* its result

vars == << pc, event_address, env_address, user_address, net, base_unit_d, reserves,
           batch1_calls, len_b1, pos, call_idx, asset_data, symbols, decimals,
           batch2_calls, len_b2, call_idx_b2, read_b1, read_b2, collateral, debt,
           oracle_assets, config_caps, total_collateral_usd_sum, total_debt_usd_sum,
           u, snapshot, error, arg, ret >>

runVars == << user_address, net, base_unit_d, reserves, batch1_calls, len_b1, pos,
              call_idx, asset_data, symbols, decimals, batch2_calls, len_b2,
              call_idx_b2, read_b1, read_b2, collateral, debt, oracle_assets,
              config_caps, total_collateral_usd_sum, total_debt_usd_sum, u, snapshot >>

None == [kind |-> "None"]
NoError == "none"
EmptyDict == << >>

\* dict.get(k, default)
Get(dict, k, default) == IF k \in DOMAIN dict THEN dict[k] ELSE default
\* dict[k] = v
Put(dict, k, v) == [x \in (DOMAIN dict) \cup {k} |-> IF x = k THEN v ELSE dict[x]]

\* a missing value is the string "None"; "" is the empty string
EventAddresses == {"None", "0xA"}
EnvAddresses == {"", "0xB"}

InitRun ==
    /\ user_address = "None"
    /\ net = << >>
    /\ base_unit_d = Zero
    /\ reserves = << >>
    /\ batch1_calls = << >>
    /\ len_b1 = 0
    /\ pos = 0
    /\ call_idx = 0
    /\ asset_data = EmptyDict
    /\ symbols = EmptyDict
    /\ decimals = EmptyDict
    /\ batch2_calls = << >>
    /\ len_b2 = 0
    /\ call_idx_b2 = 0
    /\ read_b1 = EmptyDict
    /\ read_b2 = EmptyDict
    /\ collateral = << >>
    /\ debt = << >>
    /\ oracle_assets = << >>
    /\ config_caps = << >>
    /\ total_collateral_usd_sum = Zero
    /\ total_debt_usd_sum = Zero
    /\ u = None
    /\ snapshot = None
    /\ error = NoError

Init ==
    /\ pc = "handler"
    /\ event_address \in EventAddresses
    /\ env_address \in EnvAddresses
    /\ InitRun
    /\ arg = None
    /\ ret = None

\* raise: the run ends with an exception and returns nothing
Raise(kind) ==
    /\ pc' = "failed"
    /\ error' = kind

(***************************************************************************)
(* handler (lines 560-578): resolve the wallet address.                    *)
(***************************************************************************)
\* variant: the process-wide default takes precedence over the event
ResolveAddress_defaultFirst(ev, env) == IF env \notin {"None", ""} THEN env ELSE ev

ResolveAddress(ev, env) == IF ev \notin {"None", ""} THEN ev ELSE env

Handler ==
    /\ pc = "handler"
    /\ LET addr == ResolveAddress(event_address, env_address)
       IN  IF addr \in {"None", ""}
           THEN /\ Raise("ValueError: Missing 'address'")
                /\ UNCHANGED user_address
           ELSE /\ user_address' = addr
                /\ pc' = "connect"
                /\ UNCHANGED error
    /\ UNCHANGED << event_address, env_address, net, base_unit_d, reserves, batch1_calls,
                    len_b1, pos, call_idx, asset_data, symbols, decimals, batch2_calls,
                    len_b2, call_idx_b2, read_b1, read_b2, collateral, debt,
                    oracle_assets, config_caps, total_collateral_usd_sum,
                    total_debt_usd_sum, u, snapshot, arg, ret >>

(***************************************************************************)
(* build_snapshot, lines 202-204: connectivity check.                      *)
(***************************************************************************)
\* the log entry of w3.is_connected() with its answer
IsConnected(connected) == IF connected THEN "is_connected: True" ELSE "is_connected: False"

\* variant: the answer of the connectivity check is not looked at
Connect_unchecked ==
    /\ pc = "connect"
    /\ \E connected \in BOOLEAN :
          /\ net' = Append(net, IsConnected(connected))
          /\ pc' = "contracts"
          /\ UNCHANGED error
    /\ UNCHANGED << event_address, env_address, user_address, base_unit_d, reserves,
                    batch1_calls, len_b1, pos, call_idx, asset_data, symbols, decimals,
                    batch2_calls, len_b2, call_idx_b2, read_b1, read_b2, collateral,
                    debt, oracle_assets, config_caps, total_collateral_usd_sum,
                    total_debt_usd_sum, u, snapshot, arg, ret >>

Connect ==
    /\ pc = "connect"
    /\ \E connected \in BOOLEAN :
          /\ net' = Append(net, IsConnected(connected))
          /\ IF connected
             THEN pc' = "contracts" /\ UNCHANGED error
             ELSE Raise("RuntimeError: Cannot connect")
    /\ UNCHANGED << event_address, env_address, user_address, base_unit_d, reserves,
                    batch1_calls, len_b1, pos, call_idx, asset_data, symbols, decimals,
                    batch2_calls, len_b2, call_idx_b2, read_b1, read_b2, collateral,
                    debt, oracle_assets, config_caps, total_collateral_usd_sum,
                    total_debt_usd_sum, u, snapshot, arg, ret >>

(***************************************************************************)
(* build_snapshot, lines 207-237: the direct contract reads and the        *)
(* phase-1 call list.                                                      *)
(***************************************************************************)
\* the reads of lines 210-222, in order; the fourth is wrapped in safe()
SetupReads == << "ADDRESSES_PROVIDER", "getPriceOracle", "getPoolConfigurator",
                 "BASE_CURRENCY_UNIT", "getReservesList" >>

RECURSIVE Batch1Calls(_)
Batch1Calls(rs) ==
    IF rs = << >> THEN << >>
    ELSE LET asset == Head(rs)
         IN  << [target |-> POOL_ADDRESS, fn |-> "getReserveData", for |-> asset],
                [target |-> ORACLE_ADDRESS, fn |-> "getAssetPrice", for |-> asset],
                [target |-> CONFIGURATOR_ADDRESS, fn |-> "getReserveCaps", for |-> asset],
                [target |-> ORACLE_ADDRESS, fn |-> "getSourceOfAsset", for |-> asset],
                [target |-> asset, fn |-> "symbol", for |-> asset],
                [target |-> asset, fn |-> "decimals", for |-> asset] >>
             \o Batch1Calls(Tail(rs))

\* what BASE_CURRENCY_UNIT() may do: raise, or return a unit (possibly 0)
BaseUnitAnswers == {Failed(Empty), Ok(Uint256(Zero)), Ok(Uint256(Sci(1, 8)))}

BaseUnit(answer) ==
    IF answer.success /\ ~IsZero(answer.data.v) THEN answer.data.v ELSE Sci(1, 8)

ReadContracts ==
    /\ pc = "contracts"
    /\ \/ \E k \in {1, 2, 3, 5} :
             \* the k-th read raises
             /\ net' = net \o SubSeq(SetupReads, 1, k)
             /\ Raise("ContractCallError")
             /\ UNCHANGED << base_unit_d, reserves, batch1_calls >>
       \/ \E answer \in BaseUnitAnswers, R \in 0..MaxReserves :
             /\ net' = net \o SetupReads
             /\ base_unit_d' = BaseUnit(answer)
             /\ reserves' = [i \in 1..R |-> ReserveAddress(i)]
             /\ batch1_calls' = Batch1Calls(reserves')
             /\ pc' = "batch1"
             /\ UNCHANGED error
    /\ UNCHANGED << event_address, env_address, user_address, len_b1, pos, call_idx,
                    asset_data, symbols, decimals, batch2_calls, len_b2, call_idx_b2,
                    read_b1, read_b2, collateral, debt, oracle_assets, config_caps,
                    total_collateral_usd_sum, total_debt_usd_sum, u, snapshot, arg, ret >>

(***************************************************************************)
(* run_multicall (lines 172-175) for phase 1, line 239.  tryAggregate      *)
(* answers one result per call; a result's value is drawn when the loop    *)
(* reads its slot, which every loop does at most once.                     *)
(***************************************************************************)
RunBatch1 ==
    /\ pc = "batch1"
    /\ net' = Append(net, "tryAggregate")
    /\ \E answered \in BOOLEAN :
          IF answered
          THEN /\ len_b1' = Len(batch1_calls)
               /\ pos' = 1
               /\ call_idx' = 0
               /\ pc' = "phase1"
               /\ UNCHANGED error
          ELSE /\ Raise("ContractCallError")
               /\ UNCHANGED << len_b1, pos, call_idx >>
    /\ UNCHANGED << event_address, env_address, user_address, base_unit_d, reserves,
                    batch1_calls, asset_data, symbols, decimals, batch2_calls, len_b2,
                    call_idx_b2, read_b1, read_b2, collateral, debt, oracle_assets,
                    config_caps, total_collateral_usd_sum, total_debt_usd_sum,
                    u, snapshot, arg, ret >>

(***************************************************************************)
(* build_snapshot, lines 244-314: one iteration of the phase-1 loop.       *)
(***************************************************************************)
\* a decode outside try/except raises when the call is flagged successful
\* and its bytes do not have the expected shape (lines 253, 260-262)
Phase1Raises(resp) ==
    \/ ~Decodes("reserveData", resp[1].data)
    \/ resp[2].success /\ ~Decodes("uint256", resp[2].data)
    \/ resp[3].success /\ ~Decodes("caps", resp[3].data)
    \/ resp[4].success /\ ~Decodes("address", resp[4].data)

DecodeSymbol(res_sym) ==
    IF Decodes("string", res_sym.data) THEN res_sym.data.v ELSE "UNKNOWN"

DecodeDecimals(res_dec) ==
    IF Decodes("uint8", res_dec.data) THEN res_dec.data.v ELSE 18

AssetData(resp, base_unit) ==
    LET rd == resp[1].data
        px_raw == IF resp[2].success THEN resp[2].data.v ELSE Zero
        borrow_cap == IF resp[3].success THEN resp[3].data.borrowCap ELSE Zero
        supply_cap == IF resp[3].success THEN resp[3].data.supplyCap ELSE Zero
        price_feed_addr == IF resp[4].success THEN resp[4].data.v ELSE ZERO_ADDRESS
    IN  [config |-> decode_config(rd.configuration),
         var_rate |-> Div(rd.currentVariableBorrowRate, Sci(1, 27)),
         st_rate |-> Div(rd.currentStableBorrowRate, Sci(1, 27)),
         px |-> Div(px_raw, base_unit),
         borrow_cap |-> borrow_cap,
         supply_cap |-> supply_cap,
         aToken |-> rd.aTokenAddress,
         sDebt |-> rd.stableDebtTokenAddress,
         vDebt |-> rd.variableDebtTokenAddress,
         price_feed |-> price_feed_addr]

Placeholder(asset) == [target |-> MULTICALL3_ADDRESS, fn |-> "noop", for |-> asset]

\* variant: a token that is not deployed contributes no call
TokenCalls_skipZero(token, asset) ==
    IF token # ZERO_ADDRESS
    THEN << [target |-> token, fn |-> "balanceOf", for |-> asset],
            [target |-> token, fn |-> "totalSupply", for |-> asset] >>
    ELSE << >>

TokenCalls(token, asset) ==
    IF token # ZERO_ADDRESS
    THEN << [target |-> token, fn |-> "balanceOf", for |-> asset],
            [target |-> token, fn |-> "totalSupply", for |-> asset] >>
    ELSE << Placeholder(asset), Placeholder(asset) >>

FeedCall(price_feed_addr, asset) ==
    IF price_feed_addr # ZERO_ADDRESS
    THEN << [target |-> price_feed_addr, fn |-> "latestRoundData", for |-> asset] >>
    ELSE << Placeholder(asset) >>

\* the phase-2 calls appended for a resolved reserve (lines 287-312)
Batch2CallsFor(asset, ad) ==
    TokenCalls(ad.aToken, asset) \o TokenCalls(ad.sDebt, asset)
        \o TokenCalls(ad.vDebt, asset) \o FeedCall(ad.price_feed, asset)

\* lines 247-249: the calls a reserve whose reserve-data call failed contributes
DroppedCalls(asset) == << >>

\* variant: the reserve is dropped on empty return bytes instead of on the flag
ReserveDataFailed_onEmptyBytes(res_rd) == res_rd.data.kind = "empty"

\* line 247
ReserveDataFailed(res_rd) == ~res_rd.success

\* variant: the slot index is not advanced past a dropped reserve
SkipDropped_noAdvance(idx) == idx

\* line 248: the slot index after a dropped reserve
SkipDropped(idx) == idx + 6

\* what the loop saw of the results it read for a reserve: the slot they start
\* at, the success flag of the reserve-data result and, for a reserve that was
\* not dropped, the success flags of the symbol and decimals results
Read1(idx, resp) ==
    IF resp[1].success
    THEN [slot |-> idx, rd_success |-> TRUE,
          sym_success |-> resp[5].success, dec_success |-> resp[6].success]
    ELSE [slot |-> idx, rd_success |-> FALSE]

Phase1Step ==
    /\ pc = "phase1"
    /\ pos <= Len(reserves)
    /\ LET asset == reserves[pos]
       IN  IF call_idx + 6 > len_b1
           THEN /\ Raise("ValueError: not enough values to unpack")
                /\ UNCHANGED << pos, call_idx, asset_data, symbols, decimals,
                                batch2_calls, read_b1 >>
           ELSE \E resp \in Phase1Responses(asset.id) :
                  /\ read_b1' = Put(read_b1, asset, Read1(call_idx, resp))
                  /\ IF ReserveDataFailed(resp[1])
                     THEN /\ call_idx' = SkipDropped(call_idx)
                          /\ pos' = pos + 1
                          /\ batch2_calls' = batch2_calls \o DroppedCalls(asset)
                          /\ UNCHANGED << pc, error, asset_data, symbols, decimals >>
                     ELSE IF Phase1Raises(resp)
                     THEN /\ Raise("DecodingError")
                          /\ UNCHANGED << pos, call_idx, asset_data, symbols, decimals,
                                          batch2_calls >>
                     ELSE /\ symbols' = Put(symbols, asset, DecodeSymbol(resp[5]))
                          /\ decimals' = Put(decimals, asset, DecodeDecimals(resp[6]))
                          /\ asset_data' = Put(asset_data, asset, AssetData(resp, base_unit_d))
                          /\ batch2_calls' =
                                batch2_calls \o Batch2CallsFor(asset, asset_data'[asset])
                          /\ call_idx' = call_idx + 6
                          /\ pos' = pos + 1
                          /\ UNCHANGED << pc, error >>
    /\ UNCHANGED << event_address, env_address, user_address, net, base_unit_d, reserves,
                    batch1_calls, len_b1, len_b2, call_idx_b2, read_b2, collateral, debt,
                    oracle_assets, config_caps, total_collateral_usd_sum,
                    total_debt_usd_sum, u, snapshot, arg, ret >>

(***************************************************************************)
(* run_multicall for phase 2, line 317, and lines 319-327.                 *)
(***************************************************************************)
RunBatch2 ==
    /\ pc = "phase1"
    /\ pos > Len(reserves)
    /\ net' = Append(net, "tryAggregate")
    /\ \E answered \in BOOLEAN :
          IF answered
          THEN /\ len_b2' = Len(batch2_calls)
               /\ pos' = 1
               /\ call_idx_b2' = 0
               /\ pc' = "phase2"
               /\ UNCHANGED error
          ELSE /\ Raise("ContractCallError")
               /\ UNCHANGED << len_b2, pos, call_idx_b2 >>
    /\ UNCHANGED << event_address, env_address, user_address, base_unit_d, reserves,
                    batch1_calls, len_b1, call_idx, asset_data, symbols, decimals,
                    batch2_calls, read_b1, read_b2, collateral, debt, oracle_assets,
                    config_caps, total_collateral_usd_sum, total_debt_usd_sum,
                    u, snapshot, arg, ret >>

(***************************************************************************)
(* build_snapshot, lines 328-432: one iteration of the phase-2 loop.       *)
(***************************************************************************)
\* Web3.to_int(res[1]) if res[0] and res[1] else 0
RawAmount(res) ==
    IF res.success /\ res.data.kind # "empty" THEN res.data.int ELSE Zero

\* lines 349-355
LastUpdate(res_feed) ==
    IF res_feed.success /\ res_feed.data.kind # "empty"
    THEN IF Decodes("round", res_feed.data) THEN res_feed.data.updatedAt ELSE 0
    ELSE 0

\* line 335
RowDecimals(cfg, decimals_dict, asset) ==
    IF cfg.decimals_bits > 0 THEN cfg.decimals_bits ELSE Get(decimals_dict, asset, 18)

CapUsedPct(cap, total, decs) ==
    LET denom_tokens == to_units(cap, decs)
    IN  IF Gt0(cap) /\ Gt0(denom_tokens)
        THEN Mul(Div(total, denom_tokens), D(100))
        ELSE Zero

Upper(s) == CASE s = "usdc" -> "USDC" [] OTHER -> s

\* the slot after which the phase-2 loop continues (lines 330 and 432)
Stride2 == 7

\* everything lines 333-430 derive for a resolved reserve from its seven results
Leg(asset, ad, syms, decs_dict, resp) ==
    LET cfg == ad.config
        decs == RowDecimals(cfg, decs_dict, asset)
        a_bal == to_units(RawAmount(resp[1]), decs)
        a_total == to_units(RawAmount(resp[2]), decs)
        s_bal == to_units(RawAmount(resp[3]), decs)
        s_total == to_units(RawAmount(resp[4]), decs)
        v_bal == to_units(RawAmount(resp[5]), decs)
        v_total == to_units(RawAmount(resp[6]), decs)
        debt_total == Add(s_total, v_total)
        utilization == IF Gt0(a_total) THEN Div(debt_total, a_total) ELSE Zero
        borrow_cap_used_pct == CapUsedPct(ad.borrow_cap, debt_total, decs)
        supply_cap_used_pct == CapUsedPct(ad.supply_cap, a_total, decs)
        confidence == IF Upper(Get(syms, asset, "")) = "USDC" THEN Sci(999, -3) ELSE Sci(99, -2)
        token == [symbol |-> Get(syms, asset, "UNKNOWN"), address |-> asset, decimals |-> decs]
        user_total_debt_tokens == Add(s_bal, v_bal)
    IN  [collateral_row |->
            [token |-> token, amount |-> a_bal, amount_usd |-> Mul(a_bal, ad.px),
             price_usd |-> ad.px,
             usage_as_collateral_enabled |-> cfg.usage_as_collateral_enabled,
             reserve_ltv |-> Bps(D(cfg.ltv_bps)),
             reserve_liquidation_threshold |-> Bps(D(cfg.liq_thr_bps)),
             reserve_liquidation_bonus |-> Bps(D(cfg.liq_bonus_bps)),
             emode_category |-> cfg.emode_category],
         debt_row |->
            [token |-> token, variable_debt |-> v_bal, stable_debt |-> s_bal,
             total_debt_usd |-> Mul(user_total_debt_tokens, ad.px),
             variable_borrow_apy |-> ad.var_rate, stable_borrow_apy |-> ad.st_rate,
             reserve_utilization |-> utilization, borrow_cap |-> ad.borrow_cap,
             borrow_cap_used_percent |-> borrow_cap_used_pct],
         oracle_row |->
            [token |-> token, price_usd |-> ad.px, last_update |-> LastUpdate(resp[7]),
             confidence_score |-> confidence],
         caps_row |->
            [token |-> token, supply_cap |-> ad.supply_cap,
             supply_cap_used_percent |-> supply_cap_used_pct,
             borrow_cap |-> ad.borrow_cap,
             borrow_cap_used_percent |-> borrow_cap_used_pct]]

Phase2Step ==
    /\ pc = "phase2"
    /\ pos <= Len(reserves)
    /\ LET asset == reserves[pos]
       IN  IF asset \notin DOMAIN asset_data
           THEN /\ call_idx_b2' = call_idx_b2 + Stride2
                /\ pos' = pos + 1
                /\ UNCHANGED << pc, error, read_b2, collateral, debt, oracle_assets,
                                config_caps, total_collateral_usd_sum,
                                total_debt_usd_sum >>
           ELSE IF call_idx_b2 + 7 > len_b2
           THEN \* the slices of lines 337-340 come back short
                /\ Raise("ValueError: not enough values to unpack")
                /\ UNCHANGED << pos, call_idx_b2, read_b2, collateral, debt,
                                oracle_assets, config_caps, total_collateral_usd_sum,
                                total_debt_usd_sum >>
           ELSE \E resp \in Phase2Responses :
                  LET leg == Leg(asset, asset_data[asset], symbols, decimals, resp)
                  IN  /\ read_b2' = Put(read_b2, asset, call_idx_b2)
                      /\ collateral' = Append(collateral, leg.collateral_row)
                      /\ debt' = Append(debt, leg.debt_row)
                      /\ oracle_assets' = Append(oracle_assets, leg.oracle_row)
                      /\ config_caps' = Append(config_caps, leg.caps_row)
                      /\ total_collateral_usd_sum' =
                            Add(total_collateral_usd_sum, leg.collateral_row.amount_usd)
                      /\ total_debt_usd_sum' =
                            Add(total_debt_usd_sum, leg.debt_row.total_debt_usd)
                      /\ call_idx_b2' = call_idx_b2 + Stride2
                      /\ pos' = pos + 1
                      /\ UNCHANGED << pc, error >>
    /\ UNCHANGED << event_address, env_address, user_address, net, base_unit_d, reserves,
                    batch1_calls, len_b1, call_idx, asset_data, symbols, decimals,
                    batch2_calls, len_b2, read_b1, u, snapshot, arg, ret >>

(***************************************************************************)
(* build_snapshot, lines 435-555: account data, risk derivation, base      *)
(* currency and assembly of the snapshot.                                  *)
(***************************************************************************)
\* getUserAccountData answers: (collateral, debt, available borrows,
\* liquidation threshold bps, ltv bps, health factor)
AccountSamples ==
    { << Sci(200, 8), Sci(100, 8), Sci(50, 8), D(8000), D(7500), Sci(16, 17) >>,
      << Sci(100, 8), Zero, Sci(100, 8), D(10000), D(10000), Sci(9, 20) >> }

WethAliases == {"WETH", "WETH.E", "WETH9"}

RECURSIVE FirstWeth(_, _)
\* lines 484-490
FirstWeth(rs, syms) ==
    IF rs = << >> THEN None
    ELSE IF Upper(Get(syms, Head(rs), "")) \in WethAliases THEN Head(rs)
    ELSE FirstWeth(Tail(rs), syms)

WethAddr(rs, syms) ==
    IF FirstWeth(rs, syms) = None /\ rs # << >> THEN rs[1] ELSE FirstWeth(rs, syms)

\* lines 497-503 read the feed of the base-currency reserve directly
ReadsBaseFeed(weth_addr, ad) ==
    weth_addr \in DOMAIN ad /\ ad[weth_addr].price_feed # ZERO_ADDRESS

Finish ==
    /\ pc = "phase2"
    /\ pos > Len(reserves)
    /\ \/ /\ net' = Append(net, "getUserAccountData")
          /\ Raise("ContractCallError")
          /\ UNCHANGED << u, snapshot >>
       \/ \E answer \in AccountSamples, base_feed \in {Failed(Empty), Ok(Round(1700000000))} :
            LET risk == AccountRisk(answer, base_unit_d, total_collateral_usd_sum,
                                    total_debt_usd_sum)
                weth_addr == WethAddr(reserves, symbols)
                reads_feed == ReadsBaseFeed(weth_addr, asset_data)
            IN  IF ~risk.ok
                THEN /\ net' = Append(net, "getUserAccountData")
                     /\ u' = answer
                     /\ Raise(risk.error)
                     /\ UNCHANGED snapshot
                ELSE /\ u' = answer
                     /\ net' = net \o << "getUserAccountData" >>
                               \o (IF reads_feed THEN << "latestRoundData" >> ELSE << >>)
                     /\ snapshot' =
                           [address |-> user_address,
                            user |-> risk,
                            collateral |-> collateral,
                            debt |-> debt,
                            oracles |->
                               [base_currency |->
                                   [symbol |-> "ETH",
                                    price_usd |-> IF weth_addr \in DOMAIN asset_data
                                                  THEN asset_data[weth_addr].px ELSE Zero,
                                    last_update |-> IF reads_feed /\ base_feed.success
                                                    THEN base_feed.data.updatedAt ELSE 0],
                                assets |-> oracle_assets],
                            config |-> [caps |-> config_caps]]
                     /\ pc' = "done"
                     /\ UNCHANGED error
    /\ UNCHANGED << event_address, env_address, user_address, base_unit_d, reserves,
                    batch1_calls, len_b1, pos, call_idx, asset_data, symbols, decimals,
                    batch2_calls, len_b2, call_idx_b2, read_b1, read_b2, collateral,
                    debt, oracle_assets, config_caps, total_collateral_usd_sum,
                    total_debt_usd_sum, arg, ret >>

Next ==
    \/ Handler
    \/ Connect
    \/ ReadContracts
    \/ RunBatch1
    \/ Phase1Step
    \/ RunBatch2
    \/ Phase2Step
    \/ Finish

Spec == Init /\ [][Next]_vars

(***************************************************************************)
(* The account-level derivation on its own: every account summary of a     *)
(* grid, with per-reserve sums that are zero or not.                       *)
(***************************************************************************)
UsdAmounts == {Sci(100 * k, 8) : k \in 0..MaxUsd}
ThresholdsBps == {D(0), D(5000), D(8000)}
LtvsBps == {D(0), D(5000), D(7500), D(10000), D(12000)}
HealthFactorsRay ==
    {Zero, Sci(1, 18), Sci(105, 16), Sci(10500001, 11), Sci(12, 17), Sci(125, 16),
     Sci(13, 17)}
CollateralSums == {Zero, D(150)}
DebtSums == {Zero, D(50), D(400)}

RiskInputs ==
    [u : {<< c, d, Sci(50, 8), t, l, h >> :
              c \in UsdAmounts, d \in UsdAmounts, t \in ThresholdsBps, l \in LtvsBps,
              h \in HealthFactorsRay},
     base_unit_d : {Sci(1, 8)},
     total_collateral_usd_sum : CollateralSums,
     total_debt_usd_sum : DebtSums]

InitRisk ==
    /\ pc = "risk"
    /\ event_address = "None"
    /\ env_address = "None"
    /\ InitRun
    /\ arg \in RiskInputs
    /\ ret = None

ApplyRisk ==
    /\ pc = "risk"
    /\ ret' = AccountRisk(arg.u, arg.base_unit_d, arg.total_collateral_usd_sum,
                          arg.total_debt_usd_sum)
    /\ pc' = "returned"
    /\ UNCHANGED << event_address, env_address, runVars, error, arg >>

NextRisk == ApplyRisk

SpecRisk == InitRisk /\ [][NextRisk]_vars

\* the account summary was derived and no exception was raised
Derived == pc = "returned" /\ ret.ok

(***************************************************************************)
(* decode_config on its own: configuration words with every listed field   *)
(* at its extremes and the unlisted bits all clear or all set.             *)
(***************************************************************************)
LtvFields == {0, 7500, 65535}
LiqThrFields == {8000, 65535}
LiqBonusFields == {10500, 65535}
DecimalsFields == {0, 18, 255}
EmodeFields == {0, 1, 255}
\* a limb of unlisted bits: all clear, or all set
UnlistedFill == {0, 65535}

\* the 256-bit word with the given listed fields and fill in every other limb
\* (bits 56..63 and 176..183 take the low byte of fill)
PackedWord(ltv, liq_thr, liq_bonus, decimals_bits, emode_cat, fill) ==
    [k \in 1..16 |->
        CASE k = 1 -> ltv
          [] k = 2 -> liq_thr
          [] k = 3 -> liq_bonus
          [] k = 4 -> decimals_bits + 256 * (fill % 256)
          [] k = 12 -> (fill % 256) + 256 * emode_cat
          [] OTHER -> fill]

ConfigWords ==
    {PackedWord(l, t, b, d, e, f) :
        l \in LtvFields, t \in LiqThrFields, b \in LiqBonusFields,
        d \in DecimalsFields, e \in EmodeFields, f \in UnlistedFill}
    \cup {[k \in 1..16 |-> 0]}

InitConfig ==
    /\ pc = "config"
    /\ event_address = "None"
    /\ env_address = "None"
    /\ InitRun
    /\ arg \in ConfigWords
    /\ ret = None

ApplyConfig ==
    /\ pc = "config"
    /\ ret' = decode_config(arg)
    /\ pc' = "decoded"
    /\ UNCHANGED << event_address, env_address, runVars, error, arg >>

NextConfig == ApplyConfig

SpecConfig == InitConfig /\ [][NextConfig]_vars

(***************************************************************************)
(* as_str_uint (lines 49-61).  A Python int is a sign and a magnitude of    *)
(* 16-bit limbs, least significant first; a Decimal is a sign, a            *)
(* coefficient of decimal digits, most significant first, and an exponent;  *)
(* a str is a sequence of characters.                                       *)
(***************************************************************************)
PyInt(neg, mag) == [type |-> "int", neg |-> neg, mag |-> mag]
Decimal(neg, digits, exp) == [type |-> "Decimal", neg |-> neg, digits |-> digits, exp |-> exp]

IsZeroMag(mag) == \A k \in DOMAIN mag : mag[k] = 0

RECURSIVE DivMod10(_, _, _)
\* limbs 1..k of mag, with r carried in from the limbs above, divided by 10
DivMod10(mag, k, r) ==
    IF k = 0 THEN [q |-> << >>, r |-> r]
    ELSE LET cur == r * 65536 + mag[k]
             rest == DivMod10(mag, k - 1, cur % 10)
         IN  [q |-> Append(rest.q, cur \div 10), r |-> rest.r]

RECURSIVE IntDigits(_)
\* the decimal digits of a magnitude, most significant first (none for 0)
IntDigits(mag) ==
    IF IsZeroMag(mag) THEN << >>
    ELSE LET qr == DivMod10(mag, Len(mag), 0)
         IN  Append(IntDigits(qr.q), qr.r)

DigitChars == << "0", "1", "2", "3", "4", "5", "6", "7", "8", "9" >>

\* str(x) of a Python int
str(x) ==
    LET ds == IntDigits(x.mag)
    IN  IF ds = << >> THEN << "0" >>
        ELSE (IF x.neg THEN << "-" >> ELSE << >>)
             \o [i \in 1..Len(ds) |-> DigitChars[ds[i] + 1]]

RECURSIVE MulAdd10(_, _, _)
\* limbs k.. of mag * 10 + carry
MulAdd10(mag, k, carry) ==
    IF k > Len(mag) THEN << >>
    ELSE LET cur == mag[k] * 10 + carry
         IN  << cur % 65536 >> \o MulAdd10(mag, k + 1, cur \div 65536)

RECURSIVE FromDigits(_, _)
FromDigits(ds, acc) ==
    IF ds = << >> THEN acc
    ELSE FromDigits(Tail(ds), MulAdd10(acc, 1, Head(ds)))

\* int(d) of a Decimal: the integral part, truncated toward zero; the int gets
\* as many limbs as its digits can need (four digits fit a limb)
int(d) ==
    LET kept == IF d.exp >= 0 THEN d.digits \o [i \in 1..d.exp |-> 0]
                ELSE IF Len(d.digits) + d.exp > 0
                     THEN SubSeq(d.digits, 1, Len(d.digits) + d.exp)
                     ELSE << >>
        mag == FromDigits(kept, [k \in 1..((Len(kept) \div 4) + 1) |-> 0])
    IN  PyInt(d.neg /\ ~IsZeroMag(mag), mag)

\* d < 0 of a Decimal
DecimalLt0(d) == d.neg /\ \E i \in DOMAIN d.digits : d.digits[i] # 0

\* variant: only a Python int is tested for its sign
as_str_uint_intOnly(x) ==
    IF x.type = "int"
    THEN IF x.neg THEN [ok |-> FALSE, error |-> "ValueError: uint cannot be negative"]
         ELSE [ok |-> TRUE, value |-> str(x)]
    ELSE [ok |-> TRUE, value |-> str(int(x))]

as_str_uint(x) ==
    IF x.type = "int"
    THEN IF x.neg THEN [ok |-> FALSE, error |-> "ValueError: uint cannot be negative"]
         ELSE [ok |-> TRUE, value |-> str(x)]
    ELSE IF DecimalLt0(x) THEN [ok |-> FALSE, error |-> "ValueError: uint cannot be negative"]
    ELSE [ok |-> TRUE, value |-> str(int(x))]

LimbValues == {0, 1, 4096, 65535}
Magnitudes == [1..MaxLimbs -> LimbValues]
Coefficients ==
    { << 0 >>, << 5 >>, << 1, 5 >>, << 2, 9, 9, 9 >>, << 1, 0, 0 >>,
      << 1, 1, 5, 2, 9, 2, 1, 5, 0, 4, 6, 0, 6, 8, 4, 6, 9, 7, 6 >> }
Exponents == {-3, -1, 0, 2}

\* ints (no negative zero) and finite Decimals (negative zero included)
UintInputs ==
    {PyInt(FALSE, m) : m \in Magnitudes}
    \cup {PyInt(TRUE, m) : m \in {mm \in Magnitudes : ~IsZeroMag(mm)}}
    \cup {Decimal(n, c, e) : n \in BOOLEAN, c \in Coefficients, e \in Exponents}

InitFormat ==
    /\ pc = "format"
    /\ event_address = "None"
    /\ env_address = "None"
    /\ InitRun
    /\ arg \in UintInputs
    /\ ret = None

ApplyFormat ==
    /\ pc = "format"
    /\ ret' = as_str_uint(arg)
    /\ pc' = "formatted"
    /\ UNCHANGED << event_address, env_address, runVars, error, arg >>

NextFormat == ApplyFormat

SpecFormat == InitFormat /\ [][NextFormat]_vars

(***************************************************************************)
(* Claims about the account-level derivation, under SpecRisk.              *)
(***************************************************************************)
HfRay == arg.u[6]

\* C5, as stated: risk_class is "high" for every health factor up to and
\* including 1.05, "moderate" strictly between 1.05 and 1.25, "low" otherwise;
\* is_safe iff the health factor exceeds 1.05.
C5_AsClaimed ==
    Derived =>
        /\ ret.risk_class =
              (IF Le(HfRay, Sci(105, 16)) THEN "high"
               ELSE IF Lt(HfRay, Sci(125, 16)) THEN "moderate" ELSE "low")
        /\ ret.is_safe = Gt(HfRay, Sci(105, 16))

\* C5, amended: risk_class is "high" iff the health factor is strictly below
\* 1.05, "moderate" iff it is at least 1.05 and below 1.25 (so 1.05 itself is
\* "moderate" with is_safe = false), "low" otherwise; is_safe iff it exceeds 1.05.
C5_RiskClassification ==
    Derived =>
        /\ ret.risk_class =
              (IF Lt(HfRay, Sci(105, 16)) THEN "high"
               ELSE IF Lt(HfRay, Sci(125, 16)) THEN "moderate" ELSE "low")
        /\ ret.is_safe = Gt(HfRay, Sci(105, 16))

\* the boundary: a health factor of exactly 1.05 was classified
C5_Boundary ==
    /\ Derived
    /\ HfRay = Sci(105, 16)
    /\ ret.risk_class = "moderate"
    /\ ~ret.is_safe

\* collateral * threshold - debt * 10000, in raw base-currency units times bps
RawBuffer == Sub(Mul(arg.u[1], arg.u[4]), Mul(arg.u[2], D(10000)))

\* C7: liquidation_buffer_usd is max(0, collateral_api * liq_threshold - debt_api),
\* from the account-level totals whatever the per-reserve sums, and never negative.
C7_LiquidationBuffer ==
    Derived =>
        /\ ret.liquidation_buffer_usd =
              (IF Gt0(RawBuffer)
               THEN Div(RawBuffer, Mul(D(10000), arg.base_unit_d)) ELSE Zero)
        /\ ~Lt0(ret.liquidation_buffer_usd)

\* the clamp acted, with per-reserve sums that differ from the account totals
C7_Clamped ==
    /\ Derived
    /\ Lt0(RawBuffer)
    /\ Gt0(arg.total_collateral_usd_sum)
    /\ ret.liquidation_buffer_usd = Zero

\* C8, as stated: with collateral and debt both positive the result is
\* liq_threshold / (liq_threshold - debt/collateral) if that denominator is
\* positive and 0 otherwise (also when liq_threshold is 0); with no debt it is
\* ltv / (1 - ltv).
C8_AsClaimed ==
    Derived =>
        LET c == ret.total_collateral_usd
            d == ret.total_debt_usd
            liq_threshold == Bps(arg.u[4])
            ltv == Bps(arg.u[5])
            denominator == Sub(liq_threshold, Div(d, c))
        IN  /\ (Gt0(c) /\ Gt0(d)) =>
                  ret.max_leverage_at_current_hf =
                     (IF Gt0(denominator) THEN Div(liq_threshold, denominator) ELSE Zero)
            /\ IsZero(d) =>
                  ret.max_leverage_at_current_hf = Div(ltv, Sub(One, ltv))

\* C9: net_equity_usd = total_collateral_usd - total_debt_usd, unclamped;
\* current_leverage_ratio = total_collateral_usd / net_equity_usd when the
\* equity is positive and 0 otherwise, hence 0 or at least 1.
C9_EquityAndLeverage ==
    Derived =>
        /\ Add(ret.net_equity_usd, ret.total_debt_usd) = ret.total_collateral_usd
        /\ IF Gt0(ret.net_equity_usd)
           THEN Mul(ret.current_leverage_ratio, ret.net_equity_usd) = ret.total_collateral_usd
           ELSE ret.current_leverage_ratio = Zero
        /\ \/ ret.current_leverage_ratio = Zero
           \/ Ge(ret.current_leverage_ratio, One)

\* a position under water: negative equity reported as such, leverage 0
C9_NegativeEquity ==
    /\ Derived
    /\ Lt0(ret.net_equity_usd)
    /\ Gt0(ret.total_collateral_usd)
    /\ ret.current_leverage_ratio = Zero

(***************************************************************************)
(* Claims about the two-phase batched read and the handler, under Spec.    *)
(***************************************************************************)
UnpackError == "ValueError: not enough values to unpack"

AddressesOf(rows) == [i \in 1..Len(rows) |-> rows[i].token.address]

RECURSIVE Filter(_, _)
\* the subsequence of seq whose members are in keep
Filter(seq, keep) ==
    IF seq = << >> THEN << >>
    ELSE (IF Head(seq) \in keep THEN << Head(seq) >> ELSE << >>) \o Filter(Tail(seq), keep)

\* the reserves whose reserve-data sub-call was answered with the success flag set
RdSucceeded == {a \in DOMAIN read_b1 : read_b1[a].rd_success}
RdFailed == {a \in DOMAIN read_b1 : ~read_b1[a].rd_success}

\* every leg was read from the seven slots submitted for its own reserve
Aligned2 ==
    \A a \in DOMAIN read_b2 :
        \A j \in 1..7 :
            /\ read_b2[a] + j <= Len(batch2_calls)
            /\ batch2_calls[read_b2[a] + j].for = a

\* C1, as stated: wherever the k reserves with a failing reserve-data call sit
\* in the list, build_snapshot completes, emits R - k rows in each per-reserve
\* array, and reads every leg from the slots submitted for its reserve.
C1_AsClaimed ==
    /\ error # UnpackError
    /\ pc = "done" =>
          /\ \A rows \in {collateral, debt, oracle_assets, config_caps} :
                Len(rows) = Len(reserves) - Cardinality(RdFailed)
          /\ Aligned2

\* C2: in a returned snapshot a reserve has a row in collateral, debt,
\* oracles.assets and config.caps iff its reserve-data sub-call succeeded, exactly
\* one row in each, in reserve-list order.
C2_RowsIffResolved ==
    pc = "done" =>
        /\ AddressesOf(snapshot.collateral) = Filter(reserves, RdSucceeded)
        /\ AddressesOf(snapshot.debt) = Filter(reserves, RdSucceeded)
        /\ AddressesOf(snapshot.oracles.assets) = Filter(reserves, RdSucceeded)
        /\ AddressesOf(snapshot.config.caps) = Filter(reserves, RdSucceeded)

\* a snapshot was returned for a list with a resolved and a dropped reserve
C2_MixedRun ==
    /\ pc = "done"
    /\ RdFailed # {}
    /\ Len(snapshot.collateral) > 0

\* C3, as stated: no outcome of a sub-call of either batch ends the run; a
\* failed call or undecodable bytes are replaced by the local default.
C3_AsClaimed == error \notin {"DecodingError", UnpackError}

\* C4, as stated: the phase-1 call carries 6 R sub-calls and the phase-2 call
\* 7 R sub-calls, whatever reserves failed to resolve.
C4_AsClaimed ==
    /\ pc \in {"phase1", "phase2", "done"} => len_b1 = 6 * Len(reserves)
    /\ pc \in {"phase2", "done"} => len_b2 = 7 * Len(reserves)

RECURSIVE SumCollateralUsd(_)
SumCollateralUsd(rows) ==
    IF rows = << >> THEN Zero ELSE Add(Head(rows).amount_usd, SumCollateralUsd(Tail(rows)))

RECURSIVE SumDebtUsd(_)
SumDebtUsd(rows) ==
    IF rows = << >> THEN Zero ELSE Add(Head(rows).total_debt_usd, SumDebtUsd(Tail(rows)))

Preferred(row_sum, base_amount) ==
    IF ~IsZero(row_sum) THEN row_sum ELSE Div(base_amount, base_unit_d)

\* C6: total_collateral_usd is the sum of the collateral rows' USD amounts when
\* that sum is nonzero and the account-level total otherwise, likewise
\* total_debt_usd; with no reserve resolved and the account summary
\* (200e8, 100e8, threshold 8000 bps, U = 1e8) the snapshot reports 200, 100
\* and a liquidation buffer of 60.
C6_PreferredTotals ==
    pc = "done" =>
        /\ snapshot.user.total_collateral_usd =
              Preferred(SumCollateralUsd(snapshot.collateral), u[1])
        /\ snapshot.user.total_debt_usd = Preferred(SumDebtUsd(snapshot.debt), u[2])
        /\ ( /\ snapshot.collateral = << >>
             /\ u[1] = Sci(200, 8) /\ u[2] = Sci(100, 8) /\ u[4] = D(8000)
             /\ base_unit_d = Sci(1, 8) )
           => /\ snapshot.user.total_collateral_usd = D(200)
              /\ snapshot.user.total_debt_usd = D(100)
              /\ snapshot.user.liquidation_buffer_usd = D(60)

\* every reserve of a nonempty list failed to resolve and the totals fell back
C6_AllReservesFailed ==
    /\ pc = "done"
    /\ Len(reserves) > 0
    /\ DOMAIN asset_data = {}
    /\ u[1] = Sci(200, 8)
    /\ snapshot.user.total_collateral_usd = D(200)
    /\ snapshot.user.liquidation_buffer_usd = D(60)

Missing(a) == a \in {"None", ""}

\* C10: the wallet address is the event's, else MY_ADDRESS; with both missing
\* handler raises the input error before any network interaction and returns
\* no snapshot.
C10_AddressResolution ==
    pc # "handler" =>
        IF Missing(event_address) /\ Missing(env_address)
        THEN /\ pc = "failed"
             /\ error = "ValueError: Missing 'address'"
             /\ net = << >>
             /\ snapshot = None
        ELSE user_address = (IF Missing(event_address) THEN env_address ELSE event_address)

\* both sources missing: the run ended without touching the network
C10_MissingAddress ==
    /\ pc = "failed"
    /\ Missing(event_address)
    /\ Missing(env_address)
    /\ net = << >>

\* number of entries of seq equal to x
Count(seq, x) == Cardinality({i \in DOMAIN seq : seq[i] = x})

ConnectionError == "RuntimeError: Cannot connect"

\* C11: the connectivity check is made at most once (no retry); when it fails
\* the run ends with the connection error, having issued no other network
\* call and produced no row and no snapshot; a batch call is only ever issued
\* after a connectivity check that answered true.
C11_ConnectBeforeBatch ==
    /\ Count(net, IsConnected(TRUE)) + Count(net, IsConnected(FALSE)) <= 1
    /\ (error = ConnectionError \/ Count(net, IsConnected(FALSE)) > 0) =>
          /\ pc = "failed"
          /\ error = ConnectionError
          /\ net = << IsConnected(FALSE) >>
          /\ snapshot = None
          /\ collateral = << >> /\ debt = << >>
          /\ oracle_assets = << >> /\ config_caps = << >>
    /\ \A i \in DOMAIN net :
          net[i] = "tryAggregate" => (i > 1 /\ net[1] = IsConnected(TRUE))

\* the endpoint was unreachable: the run ended right after the check
C11_CannotConnect ==
    /\ pc = "failed"
    /\ error = ConnectionError
    /\ net = << IsConnected(FALSE) >>
    /\ snapshot = None

\* C12, as stated: for every resolved reserve a failed symbol sub-call gives the
\* symbol "UNKNOWN" and a failed decimals sub-call gives metadata decimals 18
\* (the row's decimals when the configuration's decimals field is 0), whatever
\* return bytes accompany the failed call.
C12_AsClaimed ==
    /\ \A a \in DOMAIN symbols :
          /\ ~read_b1[a].sym_success => symbols[a] = "UNKNOWN"
          /\ ~read_b1[a].dec_success => decimals[a] = 18
    /\ \A k \in DOMAIN collateral :
          LET a == collateral[k].token.address
          IN  /\ ~read_b1[a].sym_success => collateral[k].token.symbol = "UNKNOWN"
              /\ (~read_b1[a].dec_success /\ asset_data[a].config.decimals_bits = 0)
                    => collateral[k].token.decimals = 18

\* the call the code submits in slot j of the seven phase-2 slots of a reserve
ExpectedCall2(a, j) ==
    LET ad == asset_data[a]
        token == CASE j \in {1, 2} -> ad.aToken
                   [] j \in {3, 4} -> ad.sDebt
                   [] j \in {5, 6} -> ad.vDebt
                   [] OTHER -> ad.price_feed
        fn == CASE j \in {1, 3, 5} -> "balanceOf"
                [] j \in {2, 4, 6} -> "totalSupply"
                [] OTHER -> "latestRoundData"
    IN  IF token = ZERO_ADDRESS
        THEN [target |-> MULTICALL3_ADDRESS, fn |-> "noop", for |-> a]
        ELSE [target |-> token, fn |-> fn, for |-> a]

\* the reserves resolved so far, in reserve-list order
Resolved == Filter(reserves, DOMAIN asset_data)

\* C15: the phase-2 call list holds, for each resolved reserve in list order,
\* exactly seven calls in the order (collateral balance, collateral supply,
\* stable-debt balance, stable-debt supply, variable-debt balance, variable-debt
\* supply, price-feed round), a call whose token or feed is the zero address
\* being a placeholder in the same slot; its length is 7 x (resolved reserves).
C15_SevenCallsPerResolved ==
    /\ Len(batch2_calls) = 7 * Len(Resolved)
    /\ \A k \in 1..Len(Resolved) :
          \A j \in 1..7 :
              batch2_calls[7 * (k - 1) + j] = ExpectedCall2(Resolved[k], j)

\* phase 1 is over with two resolved reserves, one with every token and its
\* feed deployed and one with none: seven placeholders among fourteen calls
C15_Placeholders ==
    /\ pc = "phase1"
    /\ pos > Len(reserves)
    /\ Len(batch2_calls) = 14
    /\ Count(batch2_calls, Placeholder(reserves[1])) = 7
    /\ \A j \in 8..14 : batch2_calls[j].target # MULTICALL3_ADDRESS

\* the call the code submits in slot j of the six phase-1 slots of a reserve
ExpectedCall1(a, j) ==
    CASE j = 1 -> [target |-> POOL_ADDRESS, fn |-> "getReserveData", for |-> a]
      [] j = 2 -> [target |-> ORACLE_ADDRESS, fn |-> "getAssetPrice", for |-> a]
      [] j = 3 -> [target |-> CONFIGURATOR_ADDRESS, fn |-> "getReserveCaps", for |-> a]
      [] j = 4 -> [target |-> ORACLE_ADDRESS, fn |-> "getSourceOfAsset", for |-> a]
      [] j = 5 -> [target |-> a, fn |-> "symbol", for |-> a]
      [] OTHER -> [target |-> a, fn |-> "decimals", for |-> a]

\* C16: the results of the i-th reserve (0-based) are read from slots
\* 6i..6i+5, which were submitted as (reserve data, price, caps, price-feed
\* source, symbol, decimals) of that reserve; the slot index advances by 6 per
\* reserve, kept or dropped; there is one phase-1 batch call, issued before the
\* one phase-2 batch call, whose call list holds only calls for reserves that
\* phase 1 resolved.
C16_Stride6InOrder ==
    /\ \A i \in 1..Len(reserves) :
          reserves[i] \in DOMAIN read_b1 =>
              /\ read_b1[reserves[i]].slot = 6 * (i - 1)
              /\ \A j \in 1..6 :
                    batch1_calls[6 * (i - 1) + j] = ExpectedCall1(reserves[i], j)
    /\ pc = "phase1" => call_idx = 6 * (pos - 1)
    /\ pc \in {"phase2", "done"} => call_idx = 6 * Len(reserves)
    /\ Count(net, "tryAggregate") <= 2
    /\ pc = "phase1" => Count(net, "tryAggregate") = 1
    /\ pc \in {"phase2", "done"} => Count(net, "tryAggregate") = 2
    /\ Count(net, "tryAggregate") = 0 => (read_b1 = EmptyDict /\ batch2_calls = << >>)
    /\ \A k \in DOMAIN batch2_calls :
          /\ batch2_calls[k].for \in DOMAIN read_b1
          /\ read_b1[batch2_calls[k].for].rd_success

\* the first reserve was dropped and the second was read from slots 6..11
C16_DroppedThenKept ==
    /\ Len(reserves) = 2
    /\ reserves[1] \in RdFailed
    /\ reserves[2] \in DOMAIN asset_data
    /\ read_b1[reserves[2]].slot = 6

\* C17, as stated: for every account summary (any non-negative collateral,
\* debt, liquidation threshold and ltv, ltv_bps >= 10000 included) the
\* derivation completes without raising and max_leverage_at_current_hf >= 0.
C17_AsClaimed ==
    pc = "returned" =>
        /\ ret.ok
        /\ ~Lt0(ret.max_leverage_at_current_hf)

(***************************************************************************)
(* Claims about decode_config, under SpecConfig.                           *)
(***************************************************************************)
\* floor(p / 2^o) mod 2^w of a word of limbs, for a field inside one limb
Field(p, o, w) == (p[(o \div 16) + 1] \div Pow2(o % 16)) % Pow2(w)

\* p with bit i inverted
FlipBit(p, i) ==
    [p EXCEPT ![(i \div 16) + 1] =
        IF (@ \div Pow2(i % 16)) % 2 = 1 THEN @ - Pow2(i % 16) ELSE @ + Pow2(i % 16)]

\* the bits outside the five listed ranges
UnlistedBits == (56..183) \cup (192..255)

\* C13: decode_config returns for every 256-bit word p the fields
\* floor(p / 2^o) mod 2^w of the layout (ltv 0/16, liquidation threshold 16/16,
\* liquidation bonus 32/16, decimals 48/8, e-mode category 184/8, the last
\* reported as None when it is 0); ltv_bps, liq_thr_bps, liq_bonus_bps are in
\* 0..65535 and decimals_bits in 0..255; usage_as_collateral_enabled is
\* ltv_bps > 0; inverting any unlisted bit leaves the result unchanged.
C13_DecodeConfig ==
    pc = "decoded" =>
        /\ ret.ltv_bps = Field(arg, 0, 16)
        /\ ret.liq_thr_bps = Field(arg, 16, 16)
        /\ ret.liq_bonus_bps = Field(arg, 32, 16)
        /\ ret.decimals_bits = Field(arg, 48, 8)
        /\ ret.emode_category =
              (IF Field(arg, 184, 8) > 0 THEN Field(arg, 184, 8) ELSE -1)
        /\ {ret.ltv_bps, ret.liq_thr_bps, ret.liq_bonus_bps} \subseteq 0..65535
        /\ ret.decimals_bits \in 0..255
        /\ ret.usage_as_collateral_enabled = (Field(arg, 0, 16) > 0)
        /\ \A b \in UnlistedBits : decode_config(FlipBit(arg, b)) = ret

\* the word 2^256 - 1 was decoded: every field at its maximum
C13_AllBitsSet ==
    /\ pc = "decoded"
    /\ arg = [k \in 1..16 |-> 65535]
    /\ ret.ltv_bps = 65535
    /\ ret.decimals_bits = 255
    /\ ret.emode_category = 255
    /\ ret.usage_as_collateral_enabled

(***************************************************************************)
(* Claims about as_str_uint, under SpecFormat.                             *)
(***************************************************************************)
\* pairwise coprime moduli whose product exceeds 10^27
Moduli == {32749, 32719, 32717, 32713, 32707, 32693}

RECURSIVE MagMod(_, _, _, _)
\* the value of limbs 1..k of mag, with r carried in from above, modulo q
MagMod(mag, k, q, r) ==
    IF k = 0 THEN r ELSE MagMod(mag, k - 1, q, (r * 65536 + mag[k]) % q)

DigitOf(ch) == CHOOSE d \in 0..9 : DigitChars[d + 1] = ch

RECURSIVE StrMod(_, _, _)
\* the value of a digit string, with r carried in, modulo q
StrMod(chars, q, r) ==
    IF chars = << >> THEN r ELSE StrMod(Tail(chars), q, (r * 10 + DigitOf(Head(chars))) % q)

\* a plain decimal numeral: digits only, no leading zero except "0" itself
IsNumeral(chars) ==
    /\ Len(chars) \in 1..27
    /\ \A i \in DOMAIN chars : \E d \in 0..9 : DigitChars[d + 1] = chars[i]
    /\ Len(chars) > 1 => chars[1] # "0"

\* the numeral denotes the magnitude (both are below the product of Moduli)
Denotes(chars, mag) ==
    \A q \in Moduli : StrMod(chars, q, 0) = MagMod(mag, Len(mag), q, 0)

RECURSIVE StripZeros(_)
StripZeros(ds) == IF ds # << >> /\ Head(ds) = 0 THEN StripZeros(Tail(ds)) ELSE ds

\* the numeral of floor(coefficient * 10^exp)
FloorNumeral(d) ==
    LET integral == IF d.exp >= 0 THEN d.digits \o [i \in 1..d.exp |-> 0]
                    ELSE [i \in 1..(Len(d.digits) + d.exp) |-> d.digits[i]]
        ds == StripZeros(integral)
    IN  IF ds = << >> THEN << "0" >> ELSE [i \in 1..Len(ds) |-> DigitChars[ds[i] + 1]]

IsNegative(x) ==
    IF x.type = "int" THEN x.neg
    ELSE x.neg /\ \E i \in DOMAIN x.digits : x.digits[i] # 0

TwoPow60 == PyInt(FALSE, [k \in 1..MaxLimbs |-> IF k = 4 THEN 4096 ELSE 0])

TwoPow60Numeral ==
    << "1", "1", "5", "2", "9", "2", "1", "5", "0", "4", "6", "0", "6", "8", "4", "6",
       "9", "7", "6" >>

\* C14: as_str_uint raises the domain error on every negative input and on no
\* other; on a non-negative int it returns the plain decimal numeral of
\* exactly that int ("0" for 0, "1152921504606846976" for 2^60), on a
\* non-negative Decimal the numeral of its floor.
C14_FormatUint ==
    pc = "formatted" =>
        /\ ret.ok = ~IsNegative(arg)
        /\ ~ret.ok => ret.error = "ValueError: uint cannot be negative"
        /\ ret.ok =>
              /\ IsNumeral(ret.value)
              /\ arg.type = "int" => Denotes(ret.value, arg.mag)
              /\ arg.type = "Decimal" => ret.value = FloorNumeral(arg)
              /\ arg = PyInt(FALSE, [k \in 1..MaxLimbs |-> 0]) => ret.value = << "0" >>
              /\ arg = TwoPow60 => ret.value = TwoPow60Numeral

\* 2^60, beyond the 53-bit-safe range, was rendered digit for digit
C14_TwoPow60 ==
    /\ pc = "formatted"
    /\ arg = TwoPow60
    /\ ret.ok
    /\ ret.value = TwoPow60Numeral

====
